---- MODULE Spec2Model ----
(***************************************************************************)
(* The `noble` attribute macro (noble/src/lib.rs): one invocation parses   *)
(* the annotated declaration, dispatches on its shape and returns the      *)
(* rewritten token stream.  Token streams are sequences of tokens, syntax  *)
(* trees are records, identifiers are sequences of characters.             *)
(***************************************************************************)
EXTENDS Naturals, Sequences, FiniteSets

VARIABLES pc, source, args, input, output, ran, pre, post, applied

vars == <<pc, source, args, input, output, ran, pre, post, applied>>

(***************************************************************************)
(* Bounds of the model.                                                    *)
(***************************************************************************)
MaxFields == 2
MaxVariants == 2
MaxMembers == 2
MaxStack == 2

(***************************************************************************)
(* Tokens.  P: punctuation or reserved word, I: identifier, R: raw         *)
(* identifier (r#name), L: literal.                                        *)
(***************************************************************************)
P(s) == [k |-> "p", v |-> <<s>>]
I(chars) == [k |-> "i", v |-> chars]
R(chars) == [k |-> "r", v |-> chars]
L(s) == [k |-> "l", v |-> <<s>>]

Upper == <<"A", "B", "C", "D", "E", "F", "G", "H", "I", "J", "K", "L", "M",
           "N", "O", "P", "Q", "R", "S", "T", "U", "V", "W", "X", "Y", "Z">>
Lower == <<"a", "b", "c", "d", "e", "f", "g", "h", "i", "j", "k", "l", "m",
           "n", "o", "p", "q", "r", "s", "t", "u", "v", "w", "x", "y", "z">>
Digit == <<"0", "1", "2", "3", "4", "5", "6", "7", "8", "9">>

Range(s) == {s[i] : i \in DOMAIN s}

\* str::to_lowercase, one character at a time
LowerChar(c) ==
  IF \E i \in DOMAIN Upper : Upper[i] = c
  THEN Lower[CHOOSE i \in DOMAIN Upper : Upper[i] = c]
  ELSE c

to_lowercase(s) == [i \in DOMAIN s |-> LowerChar(s[i])]

\* the decimal text of a usize, as format!("{}", i) writes it
RECURSIVE Decimal(_)
Decimal(i) ==
  IF i < 10 THEN <<Digit[i + 1]>>
  ELSE Decimal(i \div 10) \o <<Digit[(i % 10) + 1]>>

\* Ident: [raw, chars].  Display of an identifier writes r# before a raw one.
Ident(chars) == [raw |-> FALSE, chars |-> chars]
RawIdent(chars) == [raw |-> TRUE, chars |-> chars]
to_string(id) == (IF id.raw THEN <<"r", "#">> ELSE <<>>) \o id.chars

IdentStart == Range(Upper) \cup Range(Lower) \cup {"_"}
IdentContinue == IdentStart \cup Range(Digit)

\* Ident::new panics unless its text is an identifier
ValidIdent(s) ==
  /\ Len(s) > 0
  /\ s[1] \in IdentStart
  /\ \A i \in DOMAIN s : s[i] \in IdentContinue
  /\ s # <<"_">>

IdentTok(id) == IF id.raw THEN R(id.chars) ELSE I(id.chars)

\* format!("field_{}", i)
FieldParamName(i) == <<"f", "i", "e", "l", "d", "_">> \o Decimal(i)

\* the variant's name used as written
VariantMethodName_caseKept(variant_name) ==
  <<"n", "e", "w", "_">> \o to_string(variant_name)
    \o <<"_", "u", "n", "s", "a", "f", "e">>

\* format!("new_{}_unsafe", variant_name.to_string().to_lowercase())
VariantMethodName(variant_name) ==
  <<"n", "e", "w", "_">> \o to_lowercase(to_string(variant_name))
    \o <<"_", "u", "n", "s", "a", "f", "e">>

NewUnsafe == Ident(<<"n", "e", "w", "_", "u", "n", "s", "a", "f", "e">>)

\* concatenation of a sequence of token streams
RECURSIVE Flatten(_)
Flatten(ss) == IF ss = <<>> THEN <<>> ELSE Head(ss) \o Flatten(Tail(ss))

\* #(#xs),* : the streams separated by commas
RECURSIVE Separated(_)
Separated(ss) ==
  IF ss = <<>> THEN <<>>
  ELSE IF Len(ss) = 1 THEN ss[1]
  ELSE ss[1] \o <<P(",")>> \o Separated(Tail(ss))

(***************************************************************************)
(* Syntax trees and their printing (ToTokens).                             *)
(*   attribute  [name, doc]         doc: <<>> or <<text>> (#[doc = text])  *)
(*   generics   [params, where_clause]                                     *)
(*   fields     [kind, list]        kind: Named, Unnamed, Unit             *)
(*   field      [ident, ty]         ident: <<>> or <<identifier>>          *)
(*   signature  [unsafety, ident, inputs, output]                          *)
(*   block      the tokens between its braces                              *)
(***************************************************************************)
AttrTokens(a) ==
  <<P("#"), P("["), IdentTok(a.name)>>
    \o (IF a.doc = <<>> THEN <<>> ELSE <<P("="), L(a.doc[1])>>)
    \o <<P("]")>>

AttrsTokens(attrs) == Flatten([i \in DOMAIN attrs |-> AttrTokens(attrs[i])])

VisTokens(vis) == IF vis THEN <<P("pub")>> ELSE <<>>

UnsafetyTokens(unsafety) == IF unsafety THEN <<P("unsafe")>> ELSE <<>>

\* #generics, and the impl_generics and ty_generics of split_for_impl: the
\* parameters carry no bounds or defaults, so the three print alike
GenericsTokens(g) ==
  IF g.params = <<>> THEN <<>>
  ELSE <<P("<")>>
         \o Separated([i \in DOMAIN g.params |-> <<IdentTok(g.params[i])>>])
         \o <<P(">")>>

WhereTokens(g) ==
  IF g.where_clause = <<>> THEN <<>>
  ELSE <<P("where")>>
         \o Separated([i \in DOMAIN g.where_clause |->
              <<IdentTok(g.where_clause[i].ty), P(":"),
                IdentTok(g.where_clause[i].bound)>>])

FieldTokens(f) ==
  (IF f.ident = <<>> THEN <<>> ELSE <<IdentTok(f.ident[1]), P(":")>>) \o <<f.ty>>

FieldsTokens(fields) ==
  CASE fields.kind = "Named" ->
         <<P("{")>>
           \o Separated([i \in DOMAIN fields.list |-> FieldTokens(fields.list[i])])
           \o <<P("}")>>
    [] fields.kind = "Unnamed" ->
         <<P("(")>>
           \o Separated([i \in DOMAIN fields.list |-> FieldTokens(fields.list[i])])
           \o <<P(")")>>
    [] fields.kind = "Unit" -> <<>>

BlockTokens(block) == <<P("{")>> \o block \o <<P("}")>>

SigTokens(sig) ==
  UnsafetyTokens(sig.unsafety) \o <<P("fn"), IdentTok(sig.ident), P("(")>>
    \o Separated([i \in DOMAIN sig.inputs |->
         <<IdentTok(sig.inputs[i].pat), P(":"), sig.inputs[i].ty>>])
    \o <<P(")")>>
    \o (IF sig.output = <<>> THEN <<>> ELSE <<P("->"), sig.output[1]>>)

ItemFnTokens(f) ==
  AttrsTokens(f.attrs) \o VisTokens(f.vis) \o SigTokens(f.sig) \o BlockTokens(f.block)

ItemStructTokens(s) ==
  AttrsTokens(s.attrs) \o VisTokens(s.vis) \o <<P("struct"), IdentTok(s.ident)>>
    \o GenericsTokens(s.generics)
    \o (CASE s.fields.kind = "Named" ->
               WhereTokens(s.generics) \o FieldsTokens(s.fields)
          [] s.fields.kind = "Unnamed" ->
               FieldsTokens(s.fields) \o WhereTokens(s.generics) \o <<P(";")>>
          [] s.fields.kind = "Unit" ->
               WhereTokens(s.generics) \o <<P(";")>>)

VariantTokens(v) == <<IdentTok(v.ident)>> \o FieldsTokens(v.fields)

VariantsTokens(variants) ==
  Separated([i \in DOMAIN variants |-> VariantTokens(variants[i])])

ItemEnumTokens(e) ==
  AttrsTokens(e.attrs) \o VisTokens(e.vis) \o <<P("enum"), IdentTok(e.ident)>>
    \o GenericsTokens(e.generics) \o WhereTokens(e.generics)
    \o <<P("{")>> \o VariantsTokens(e.variants) \o <<P("}")>>

TraitItemTokens(m) ==
  IF m.kind = "Fn"
  THEN AttrsTokens(m.attrs) \o SigTokens(m.sig)
         \o (IF m.default = <<>> THEN <<P(";")>> ELSE BlockTokens(m.default[1]))
  ELSE <<P("type"), IdentTok(m.ident), P(";")>>

ItemTraitTokens(t) ==
  AttrsTokens(t.attrs) \o VisTokens(t.vis) \o UnsafetyTokens(t.unsafety)
    \o <<P("trait"), IdentTok(t.ident), P("{")>>
    \o Flatten([i \in DOMAIN t.items |-> TraitItemTokens(t.items[i])])
    \o <<P("}")>>

ImplItemTokens(m) ==
  IF m.kind = "Fn"
  THEN AttrsTokens(m.attrs) \o VisTokens(m.vis) \o SigTokens(m.sig)
         \o BlockTokens(m.block)
  ELSE <<P("type"), IdentTok(m.ident), P("="), m.ty, P(";")>>

ItemImplTokens(m) ==
  AttrsTokens(m.attrs) \o UnsafetyTokens(m.unsafety) \o <<P("impl")>>
    \o GenericsTokens(m.generics)
    \o (IF m.trait_ = <<>> THEN <<>> ELSE <<IdentTok(m.trait_[1]), P("for")>>)
    \o <<IdentTok(m.self_ty.ident)>>
    \o GenericsTokens([params |-> m.self_ty.args, where_clause |-> <<>>])
    \o WhereTokens(m.generics)
    \o <<P("{")>>
    \o Flatten([i \in DOMAIN m.items |-> ImplItemTokens(m.items[i])])
    \o <<P("}")>>

ItemTypeTokens(t) ==
  AttrsTokens(t.attrs) \o VisTokens(t.vis)
    \o <<P("type"), IdentTok(t.ident), P("="), t.ty, P(";")>>

ItemUseTokens(u) ==
  AttrsTokens(u.attrs) \o VisTokens(u.vis) \o <<P("use"), IdentTok(u.ident), P(";")>>

\* quote! { #item }
ItemTokens(item) ==
  CASE item.shape = "Fn" -> ItemFnTokens(item)
    [] item.shape = "Struct" -> ItemStructTokens(item)
    [] item.shape = "Enum" -> ItemEnumTokens(item)
    [] item.shape = "Trait" -> ItemTraitTokens(item)
    [] item.shape = "Impl" -> ItemImplTokens(item)
    [] item.shape = "Type" -> ItemTypeTokens(item)
    [] item.shape = "Use" -> ItemUseTokens(item)

(***************************************************************************)
(* Parsing (syn::parse).  A parser takes a token stream and returns        *)
(* [ok |-> FALSE] or [ok |-> TRUE, node |-> tree, rest |-> what follows].  *)
(***************************************************************************)
Fail == [ok |-> FALSE]
Ok(node, rest) == [ok |-> TRUE, node |-> node, rest |-> rest]

Drop(ts, n) == SubSeq(ts, n + 1, Len(ts))
At(ts, i, tok) == Len(ts) >= i /\ ts[i] = tok
IsIdentTok(tok) == tok.k \in {"i", "r"}
IdentOf(tok) == [raw |-> tok.k = "r", chars |-> tok.v]
IsTypeTok(tok) == IsIdentTok(tok) \/ tok = P("Self")

Opens == {P("{"), P("("), P("[")}
Closes == {P("}"), P(")"), P("]")}
Closer(tok) ==
  CASE tok = P("{") -> P("}") [] tok = P("(") -> P(")") [] tok = P("[") -> P("]")

\* the index of the delimiter that closes the group opened at ts[1], 0 if none
RECURSIVE ScanClose(_, _, _)
ScanClose(ts, i, stack) ==
  IF i > Len(ts) THEN 0
  ELSE IF ts[i] \in Opens THEN ScanClose(ts, i + 1, <<Closer(ts[i])>> \o stack)
  ELSE IF ts[i] \in Closes
       THEN IF stack = <<>> \/ Head(stack) # ts[i] THEN 0
            ELSE IF Len(stack) = 1 THEN i
            ELSE ScanClose(ts, i + 1, Tail(stack))
  ELSE ScanClose(ts, i + 1, stack)

\* a delimited group opened by `open`: node is the stream inside it
Group(ts, open) ==
  IF ~At(ts, 1, open) THEN Fail
  ELSE LET j == ScanClose(ts, 1, <<>>)
       IN IF j = 0 THEN Fail ELSE Ok(SubSeq(ts, 2, j - 1), Drop(ts, j))

\* the pieces of a stream between its commas outside any group
RECURSIVE SplitFrom(_, _, _, _)
SplitFrom(ts, i, depth, cur) ==
  IF i > Len(ts) THEN <<cur>>
  ELSE IF depth = 0 /\ ts[i] = P(",")
       THEN <<cur>> \o SplitFrom(ts, i + 1, 0, <<>>)
  ELSE SplitFrom(ts, i + 1,
                 IF ts[i] \in Opens THEN depth + 1
                 ELSE IF ts[i] \in Closes THEN depth - 1 ELSE depth,
                 Append(cur, ts[i]))

SplitTop(ts) == IF ts = <<>> THEN <<>> ELSE SplitFrom(ts, 1, 0, <<>>)

\* the first index of a token of `stops` in ts, Len(ts) + 1 if none
RECURSIVE FindFrom(_, _, _)
FindFrom(ts, i, stops) ==
  IF i > Len(ts) \/ ts[i] \in stops THEN i ELSE FindFrom(ts, i + 1, stops)

\* r, and then K of it, unless r failed
Then(r, K(_)) == IF r.ok THEN K(r) ELSE Fail
Require(c, r) == IF c THEN r ELSE Fail
Cons(x, r) == Ok(<<x>> \o r.node, r.rest)

\* the attribute inside #[ ]: a name, or name = literal
AttrOf(m) ==
  IF Len(m) = 1 /\ IsIdentTok(m[1])
  THEN Ok([name |-> IdentOf(m[1]), doc |-> <<>>], <<>>)
  ELSE IF Len(m) = 3 /\ IsIdentTok(m[1]) /\ m[2] = P("=") /\ m[3].k = "l"
  THEN Ok([name |-> IdentOf(m[1]), doc |-> m[3].v], <<>>)
  ELSE Fail

RECURSIVE ParseAttrs(_)
ParseAttrs(ts) ==
  IF ~At(ts, 1, P("#")) THEN Ok(<<>>, ts)
  ELSE Then(Group(Drop(ts, 1), P("[")), LAMBDA g :
       Then(AttrOf(g.node), LAMBDA a :
       Then(ParseAttrs(g.rest), LAMBDA more : Cons(a.node, more))))

ParseVis(ts) == IF At(ts, 1, P("pub")) THEN Ok(TRUE, Drop(ts, 1)) ELSE Ok(FALSE, ts)

ParseUnsafety(ts) ==
  IF At(ts, 1, P("unsafe")) THEN Ok(TRUE, Drop(ts, 1)) ELSE Ok(FALSE, ts)

\* every piece satisfies Is: then the sequence of Of(piece)
Pieces(pieces, Is(_), Of(_), rest) ==
  IF \A i \in DOMAIN pieces : Is(pieces[i])
  THEN Ok([i \in DOMAIN pieces |-> Of(pieces[i])], rest)
  ELSE Fail

IsParam(piece) == Len(piece) = 1 /\ IsIdentTok(piece[1])
ParamOf(piece) == IdentOf(piece[1])

\* <T, U>: node is the sequence of parameters
AngleTo(ts, j) ==
  Require(j <= Len(ts) /\ j > 2,
          Pieces(SplitTop(SubSeq(ts, 2, j - 1)), IsParam, ParamOf, Drop(ts, j)))

ParseAngle(ts) ==
  IF ~At(ts, 1, P("<")) THEN Ok(<<>>, ts) ELSE AngleTo(ts, FindFrom(ts, 2, {P(">")}))

IsPredicate(piece) ==
  /\ Len(piece) = 3
  /\ IsIdentTok(piece[1])
  /\ piece[2] = P(":")
  /\ IsIdentTok(piece[3])
PredicateOf(piece) == [ty |-> IdentOf(piece[1]), bound |-> IdentOf(piece[3])]

\* where T: Bound, ... up to the next { or ;
WhereTo(ts, j) ==
  Require(j > 2,
          Pieces(SplitTop(SubSeq(ts, 2, j - 1)), IsPredicate, PredicateOf,
                 Drop(ts, j - 1)))

ParseWhere(ts) ==
  IF ~At(ts, 1, P("where")) THEN Ok(<<>>, ts)
  ELSE WhereTo(ts, FindFrom(ts, 2, {P("{"), P(";")}))

IsNamedField(piece) ==
  Len(piece) = 3 /\ IsIdentTok(piece[1]) /\ piece[2] = P(":") /\ IsTypeTok(piece[3])
NamedFieldOf(piece) == [ident |-> <<IdentOf(piece[1])>>, ty |-> piece[3]]

IsUnnamedField(piece) == Len(piece) = 1 /\ IsTypeTok(piece[1])
UnnamedFieldOf(piece) == [ident |-> <<>>, ty |-> piece[1]]

FieldsOf(kind, r) == Ok([kind |-> kind, list |-> r.node], r.rest)

\* { a: T, ... } or ( T, ... ) or nothing
ParseFields(ts) ==
  IF At(ts, 1, P("{"))
  THEN Then(Group(ts, P("{")), LAMBDA g :
       Then(Pieces(SplitTop(g.node), IsNamedField, NamedFieldOf, g.rest),
            LAMBDA r : FieldsOf("Named", r)))
  ELSE IF At(ts, 1, P("("))
  THEN Then(Group(ts, P("(")), LAMBDA g :
       Then(Pieces(SplitTop(g.node), IsUnnamedField, UnnamedFieldOf, g.rest),
            LAMBDA r : FieldsOf("Unnamed", r)))
  ELSE Ok([kind |-> "Unit", list |-> <<>>], ts)

ParseBlock(ts) == Group(ts, P("{"))

InputOf(piece) == [pat |-> IdentOf(piece[1]), ty |-> piece[3]]

\* -> Type, or nothing
ParseOutput(ts) ==
  IF Len(ts) >= 2 /\ ts[1] = P("->") /\ IsTypeTok(ts[2])
  THEN Ok(<<ts[2]>>, Drop(ts, 2))
  ELSE Ok(<<>>, ts)

SigAfter(u, ts) ==
  Require(Len(ts) >= 3 /\ ts[1] = P("fn") /\ IsIdentTok(ts[2]),
    Then(Group(Drop(ts, 2), P("(")), LAMBDA g :
    Then(Pieces(SplitTop(g.node), IsNamedField, InputOf, g.rest), LAMBDA ins :
    Then(ParseOutput(ins.rest), LAMBDA out :
      Ok([unsafety |-> u, ident |-> IdentOf(ts[2]), inputs |-> ins.node,
          output |-> out.node], out.rest)))))

ParseSig(ts) == Then(ParseUnsafety(ts), LAMBDA u : SigAfter(u.node, u.rest))

ParseFn(attrs, vis, ts) ==
  Then(ParseSig(ts), LAMBDA sg :
  Then(ParseBlock(sg.rest), LAMBDA b :
    Ok([shape |-> "Fn", attrs |-> attrs, vis |-> vis, sig |-> sg.node,
        block |-> b.node], b.rest)))

\* what follows the fields: a where clause after tuple fields, and the ;
StructEnd(fields, where1, ts) ==
  IF fields.kind = "Named" THEN Ok(where1, ts)
  ELSE IF fields.kind = "Unnamed" /\ where1 # <<>> THEN Fail
  ELSE Then(IF fields.kind = "Unnamed" THEN ParseWhere(ts) ELSE Ok(where1, ts),
            LAMBDA w : Require(At(w.rest, 1, P(";")), Ok(w.node, Drop(w.rest, 1))))

ParseStruct(attrs, vis, ts) ==
  Require(Len(ts) >= 2 /\ ts[1] = P("struct") /\ IsIdentTok(ts[2]),
    Then(ParseAngle(Drop(ts, 2)), LAMBDA g :
    Then(ParseWhere(g.rest), LAMBDA w1 :
    Then(ParseFields(w1.rest), LAMBDA f :
    Then(StructEnd(f.node, w1.node, f.rest), LAMBDA w :
      Ok([shape |-> "Struct", attrs |-> attrs, vis |-> vis,
          ident |-> IdentOf(ts[2]),
          generics |-> [params |-> g.node, where_clause |-> w.node],
          fields |-> f.node], w.rest))))))

ParseVariant(piece) ==
  Require(Len(piece) >= 1 /\ IsIdentTok(piece[1]),
    Then(ParseFields(Drop(piece, 1)), LAMBDA f :
      Require(f.rest = <<>>,
              Ok([ident |-> IdentOf(piece[1]), fields |-> f.node], <<>>))))

IsVariant(piece) == ParseVariant(piece).ok
VariantOf(piece) == ParseVariant(piece).node

ParseEnum(attrs, vis, ts) ==
  Require(Len(ts) >= 2 /\ ts[1] = P("enum") /\ IsIdentTok(ts[2]),
    Then(ParseAngle(Drop(ts, 2)), LAMBDA g :
    Then(ParseWhere(g.rest), LAMBDA w :
    Then(Group(w.rest, P("{")), LAMBDA b :
    Then(Pieces(SplitTop(b.node), IsVariant, VariantOf, b.rest), LAMBDA vs :
      Ok([shape |-> "Enum", attrs |-> attrs, vis |-> vis,
          ident |-> IdentOf(ts[2]),
          generics |-> [params |-> g.node, where_clause |-> w.node],
          variants |-> vs.node], vs.rest))))))

\* ; or { ... } after the signature of a trait's method
ParseDefault(ts) ==
  IF At(ts, 1, P(";")) THEN Ok(<<>>, Drop(ts, 1))
  ELSE Then(ParseBlock(ts), LAMBDA b : Ok(<<b.node>>, b.rest))

ParseTraitItem(ts) ==
  IF At(ts, 1, P("type"))
  THEN Require(Len(ts) >= 3 /\ IsIdentTok(ts[2]) /\ ts[3] = P(";"),
               Ok([kind |-> "Type", ident |-> IdentOf(ts[2])], Drop(ts, 3)))
  ELSE Then(ParseAttrs(ts), LAMBDA a :
       Then(ParseSig(a.rest), LAMBDA sg :
       Then(ParseDefault(sg.rest), LAMBDA d :
         Ok([kind |-> "Fn", attrs |-> a.node, sig |-> sg.node, default |-> d.node],
            d.rest))))

RECURSIVE ParseTraitItems(_)
ParseTraitItems(ts) ==
  IF ts = <<>> THEN Ok(<<>>, <<>>)
  ELSE Then(ParseTraitItem(ts), LAMBDA m :
       Then(ParseTraitItems(m.rest), LAMBDA more : Cons(m.node, more)))

TraitAfter(attrs, vis, u, ts) ==
  Require(Len(ts) >= 2 /\ ts[1] = P("trait") /\ IsIdentTok(ts[2]),
    Then(Group(Drop(ts, 2), P("{")), LAMBDA b :
    Then(ParseTraitItems(b.node), LAMBDA ms :
      Ok([shape |-> "Trait", attrs |-> attrs, vis |-> vis, unsafety |-> u,
          ident |-> IdentOf(ts[2]), items |-> ms.node], b.rest))))

ParseTrait(attrs, vis, ts) ==
  Then(ParseUnsafety(ts), LAMBDA u : TraitAfter(attrs, vis, u.node, u.rest))

ParseImplItem(ts) ==
  IF At(ts, 1, P("type"))
  THEN Require(/\ Len(ts) >= 5
               /\ IsIdentTok(ts[2])
               /\ ts[3] = P("=")
               /\ IsTypeTok(ts[4])
               /\ ts[5] = P(";"),
               Ok([kind |-> "Type", ident |-> IdentOf(ts[2]), ty |-> ts[4]],
                  Drop(ts, 5)))
  ELSE Then(ParseAttrs(ts), LAMBDA a :
       Then(ParseVis(a.rest), LAMBDA v :
       Then(ParseSig(v.rest), LAMBDA sg :
       Then(ParseBlock(sg.rest), LAMBDA b :
         Ok([kind |-> "Fn", attrs |-> a.node, vis |-> v.node, sig |-> sg.node,
             block |-> b.node], b.rest)))))

RECURSIVE ParseImplItems(_)
ParseImplItems(ts) ==
  IF ts = <<>> THEN Ok(<<>>, <<>>)
  ELSE Then(ParseImplItem(ts), LAMBDA m :
       Then(ParseImplItems(m.rest), LAMBDA more : Cons(m.node, more)))

\* Trait for, or nothing: node is <<Trait>> or <<>>
ParseTraitFor(ts) ==
  IF Len(ts) >= 3 /\ IsIdentTok(ts[1]) /\ ts[2] = P("for")
  THEN Ok(<<IdentOf(ts[1])>>, Drop(ts, 2))
  ELSE Ok(<<>>, ts)

\* Type<T>
ParseSelfTy(ts) ==
  Require(Len(ts) >= 1 /\ IsIdentTok(ts[1]),
    Then(ParseAngle(Drop(ts, 1)), LAMBDA ty :
      Ok([ident |-> IdentOf(ts[1]), args |-> ty.node], ty.rest)))

ImplAfter(attrs, u, ts) ==
  Require(At(ts, 1, P("impl")),
    Then(ParseAngle(Drop(ts, 1)), LAMBDA g :
    Then(ParseTraitFor(g.rest), LAMBDA t :
    Then(ParseSelfTy(t.rest), LAMBDA ty :
    Then(ParseWhere(ty.rest), LAMBDA w :
    Then(Group(w.rest, P("{")), LAMBDA b :
    Then(ParseImplItems(b.node), LAMBDA ms :
      Ok([shape |-> "Impl", attrs |-> attrs, unsafety |-> u,
          generics |-> [params |-> g.node, where_clause |-> w.node],
          trait_ |-> t.node, self_ty |-> ty.node, items |-> ms.node],
         b.rest))))))))

ParseImpl(attrs, vis, ts) ==
  Require(~vis, Then(ParseUnsafety(ts), LAMBDA u : ImplAfter(attrs, u.node, u.rest)))

ParseType(attrs, vis, ts) ==
  Require(/\ Len(ts) >= 5
          /\ ts[1] = P("type")
          /\ IsIdentTok(ts[2])
          /\ ts[3] = P("=")
          /\ IsTypeTok(ts[4])
          /\ ts[5] = P(";"),
          Ok([shape |-> "Type", attrs |-> attrs, vis |-> vis,
              ident |-> IdentOf(ts[2]), ty |-> ts[4]], Drop(ts, 5)))

ParseUse(attrs, vis, ts) ==
  Require(Len(ts) >= 3 /\ ts[1] = P("use") /\ IsIdentTok(ts[2]) /\ ts[3] = P(";"),
          Ok([shape |-> "Use", attrs |-> attrs, vis |-> vis,
              ident |-> IdentOf(ts[2])], Drop(ts, 3)))

\* the word that decides the kind of item, past a leading `unsafe`
Keyword(ts) ==
  IF At(ts, 1, P("unsafe")) /\ Len(ts) >= 2 THEN ts[2]
  ELSE IF ts # <<>> THEN ts[1]
  ELSE P("")

ItemOfKind(kw, attrs, vis, ts) ==
  CASE kw = P("fn") -> ParseFn(attrs, vis, ts)
    [] kw = P("struct") -> ParseStruct(attrs, vis, ts)
    [] kw = P("enum") -> ParseEnum(attrs, vis, ts)
    [] kw = P("trait") -> ParseTrait(attrs, vis, ts)
    [] kw = P("impl") -> ParseImpl(attrs, vis, ts)
    [] kw = P("type") -> ParseType(attrs, vis, ts)
    [] kw = P("use") -> ParseUse(attrs, vis, ts)
    [] OTHER -> Fail

\* one item at the head of the stream
ParseItemPrefix(ts) ==
  Then(ParseAttrs(ts), LAMBDA a :
  Then(ParseVis(a.rest), LAMBDA v :
    ItemOfKind(Keyword(v.rest), a.node, v.node, v.rest)))

\* syn::parse::<Item>: the whole stream is one item
ParseItem(ts) == Then(ParseItemPrefix(ts), LAMBDA r : Require(r.rest = <<>>, r))

\* a stream of items, as the compiler reads the expansion back
RECURSIVE ParseFile(_)
ParseFile(ts) ==
  IF ts = <<>> THEN Ok(<<>>, <<>>)
  ELSE Then(ParseItemPrefix(ts), LAMBDA r :
       Then(ParseFile(r.rest), LAMBDA more : Cons(r.node, more)))

(***************************************************************************)
(* The transformers.  Each returns [st, ts]: st is "ok" with the token     *)
(* stream ts it returns, or "panic" when the macro panics.                 *)
(***************************************************************************)
Done(ts) == [st |-> "ok", ts |-> ts]
Panic == [st |-> "panic", ts |-> <<>>]

\* syn::parse_quote! { { unsafe #original_block } }
WrapBlock(original_block) ==
  ParseBlock(<<P("{"), P("unsafe")>> \o BlockTokens(original_block) \o <<P("}")>>)

\* a routine emitted without the wrapper
wrap_function_unwrapped(func) == Done(ItemFnTokens(func))

WithBlock(func, block) ==
  IF ~(block.ok /\ block.rest = <<>>) THEN Panic
  ELSE Done(ItemFnTokens([func EXCEPT !.block = block.node]))

wrap_function(func) == WithBlock(func, WrapBlock(func.block))

\* impl #impl_generics #name #ty_generics #where_clause
ImplHeader(name, generics) ==
  <<P("impl")>> \o GenericsTokens(generics) \o <<IdentTok(name)>>
    \o GenericsTokens(generics) \o WhereTokens(generics)

\* /// Unsafe constructor
DocUnsafeConstructor ==
  AttrTokens([name |-> Ident(<<"d", "o", "c">>), doc |-> <<" Unsafe constructor">>])

\* parameters numbered from one
ParamNames_fromOne(fields) == [i \in DOMAIN fields.list |-> I(FieldParamName(i))]

\* (0..field_types.len()).map(|i| Ident::new(&format!("field_{}", i), ..))
ParamNames(fields) == [i \in DOMAIN fields.list |-> I(FieldParamName(i - 1))]

StructConstructor(struct_item) ==
  LET fields == struct_item.fields
      field_names == [i \in DOMAIN fields.list |-> IdentTok(fields.list[i].ident[1])]
      field_types == [i \in DOMAIN fields.list |-> fields.list[i].ty]
      param_names == ParamNames(fields)
      head == ImplHeader(struct_item.ident, struct_item.generics) \o <<P("{")>>
                \o DocUnsafeConstructor
                \o <<P("pub"), P("unsafe"), P("fn"), IdentTok(NewUnsafe), P("(")>>
  IN CASE fields.kind = "Named" ->
            head
              \o Separated([i \in DOMAIN field_names |->
                   <<field_names[i], P(":"), field_types[i]>>])
              \o <<P(")"), P("->"), P("Self"), P("{"), P("unsafe"), P("{"),
                   P("Self"), P("{")>>
              \o Separated([i \in DOMAIN field_names |-> <<field_names[i]>>])
              \o <<P("}"), P("}"), P("}"), P("}")>>
       [] fields.kind = "Unnamed" ->
            head
              \o Separated([i \in DOMAIN param_names |->
                   <<param_names[i], P(":"), field_types[i]>>])
              \o <<P(")"), P("->"), P("Self"), P("{"), P("unsafe"), P("{"),
                   P("Self"), P("(")>>
              \o Separated([i \in DOMAIN param_names |-> <<param_names[i]>>])
              \o <<P(")"), P("}"), P("}"), P("}")>>
       [] fields.kind = "Unit" ->
            head
              \o <<P(")"), P("->"), P("Self"), P("{"), P("unsafe"), P("{"),
                   P("Self"), P("}"), P("}"), P("}")>>

\* #(#attrs)* #vis struct #name #generics #struct_item.fields #where_clause
\* quote! interpolates the variable struct_item, then writes `. fields`
OriginalStruct(struct_item) ==
  AttrsTokens(struct_item.attrs) \o VisTokens(struct_item.vis)
    \o <<P("struct"), IdentTok(struct_item.ident)>>
    \o GenericsTokens(struct_item.generics)
    \o ItemStructTokens(struct_item)
    \o <<P("."), I(<<"f", "i", "e", "l", "d", "s">>)>>
    \o WhereTokens(struct_item.generics)

wrap_struct(struct_item) ==
  Done(OriginalStruct(struct_item) \o StructConstructor(struct_item))

WrapMethod(item) ==
  IF item.kind = "Fn" THEN [item EXCEPT !.block = WrapBlock(item.block).node] ELSE item

\* every block marked unsafe, bound to a contract or not
wrap_impl_alwaysUnsafe(impl_item) ==
  Done(ItemImplTokens(
         [impl_item EXCEPT
            !.unsafety = TRUE,
            !.items = [i \in DOMAIN impl_item.items |->
                         WrapMethod(impl_item.items[i])]]))

wrap_impl(impl_item) ==
  LET items == [i \in DOMAIN impl_item.items |-> WrapMethod(impl_item.items[i])]
  IN IF impl_item.trait_ # <<>>
     THEN Done(ItemImplTokens([impl_item EXCEPT !.unsafety = TRUE, !.items = items]))
     ELSE Done(ItemImplTokens([impl_item EXCEPT !.items = items]))

\* the constructor of one variant; method_name is the text given to Ident::new
VariantConstructor(variant) ==
  LET method_name == I(VariantMethodName(variant.ident))
      fields == variant.fields
      field_names == [i \in DOMAIN fields.list |-> IdentTok(fields.list[i].ident[1])]
      field_types == [i \in DOMAIN fields.list |-> fields.list[i].ty]
      param_names == ParamNames(fields)
      head == <<P("pub"), P("unsafe"), P("fn"), method_name, P("(")>>
      self == <<P("Self"), P("::"), IdentTok(variant.ident)>>
  IN CASE fields.kind = "Named" ->
            head
              \o Separated([i \in DOMAIN field_names |->
                   <<field_names[i], P(":"), field_types[i]>>])
              \o <<P(")"), P("->"), P("Self"), P("{")>> \o self \o <<P("{")>>
              \o Separated([i \in DOMAIN field_names |-> <<field_names[i]>>])
              \o <<P("}"), P("}")>>
       [] fields.kind = "Unnamed" ->
            head
              \o Separated([i \in DOMAIN param_names |->
                   <<param_names[i], P(":"), field_types[i]>>])
              \o <<P(")"), P("->"), P("Self"), P("{")>> \o self \o <<P("(")>>
              \o Separated([i \in DOMAIN param_names |-> <<param_names[i]>>])
              \o <<P(")"), P("}")>>
       [] fields.kind = "Unit" ->
            head \o <<P(")"), P("->"), P("Self"), P("{")>> \o self \o <<P("}")>>

wrap_enum(enum_item) ==
  LET variants == enum_item.variants
      original_enum == AttrsTokens(enum_item.attrs) \o VisTokens(enum_item.vis)
                         \o <<P("enum"), IdentTok(enum_item.ident)>>
                         \o GenericsTokens(enum_item.generics)
                         \o WhereTokens(enum_item.generics)
                         \o <<P("{")>> \o VariantsTokens(variants) \o <<P("}")>>
  IN IF \E i \in DOMAIN variants : ~ValidIdent(VariantMethodName(variants[i].ident))
     THEN Panic
     ELSE Done(original_enum
                 \o ImplHeader(enum_item.ident, enum_item.generics) \o <<P("{")>>
                 \o Flatten([i \in DOMAIN variants |-> VariantConstructor(variants[i])])
                 \o <<P("}")>>)

\* the signature left as it was
WrapTraitMethod_sigKept(item) ==
  IF item.kind = "Fn"
  THEN [item EXCEPT !.default = IF item.default = <<>> THEN <<>>
                                ELSE <<WrapBlock(item.default[1]).node>>]
  ELSE item

WrapTraitMethod(item) ==
  IF item.kind = "Fn"
  THEN [item EXCEPT !.sig.unsafety = TRUE,
                    !.default = IF item.default = <<>> THEN <<>>
                                ELSE <<WrapBlock(item.default[1]).node>>]
  ELSE item

wrap_trait(trait_item) ==
  Done(ItemTraitTokens(
         [trait_item EXCEPT
            !.items = [i \in DOMAIN trait_item.items |->
                         WrapTraitMethod(trait_item.items[i])],
            !.unsafety = TRUE]))

\* err.to_compile_error()
CompileError ==
  <<P("::"), P("core"), P("::"), P("compile_error"), P("!"), P("{"),
    L("parse error"), P("}")>>

Ran(name, r) == [st |-> r.st, ran |-> name, ts |-> r.ts]

\* the default arm returning nothing
Dispatch_otherDropped(item) ==
  CASE item.shape = "Fn" -> Ran("wrap_function", wrap_function(item))
    [] item.shape = "Struct" -> Ran("wrap_struct", wrap_struct(item))
    [] item.shape = "Impl" -> Ran("wrap_impl", wrap_impl(item))
    [] item.shape = "Enum" -> Ran("wrap_enum", wrap_enum(item))
    [] item.shape = "Trait" -> Ran("wrap_trait", wrap_trait(item))
    [] OTHER -> Ran("none", Done(<<>>))

\* match item { ... }
Dispatch(item) ==
  CASE item.shape = "Fn" -> Ran("wrap_function", wrap_function(item))
    [] item.shape = "Struct" -> Ran("wrap_struct", wrap_struct(item))
    [] item.shape = "Impl" -> Ran("wrap_impl", wrap_impl(item))
    [] item.shape = "Enum" -> Ran("wrap_enum", wrap_enum(item))
    [] item.shape = "Trait" -> Ran("wrap_trait", wrap_trait(item))
    [] OTHER -> Ran("none", Done(ItemTokens(item)))

\* parse_macro_input!(input as Item), then the dispatch
Parsed(item) ==
  IF ~item.ok THEN [st |-> "error", ran |-> "none", ts |-> CompileError]
  ELSE Dispatch(item.node)

\* the macro: [st, ran, ts]; st "error" is the parse failure of the input
noble(_args, in) == Parsed(ParseItem(in))

(***************************************************************************)
(* The declarations the macro is applied to.                               *)
(***************************************************************************)
Id(c) == Ident(<<c>>)
TyI32 == I(<<"i", "3", "2">>)
TyT == I(<<"T">>)

NobleAttr == [name |-> Ident(<<"n", "o", "b", "l", "e">>), doc |-> <<>>]
InlineAttr == [name |-> Ident(<<"i", "n", "l", "i", "n", "e">>), doc |-> <<>>]

\* k further #[noble] attributes stacked on the declaration
Stack(k) == [i \in 1..k |-> NobleAttr]
Stacks == {Stack(k) : k \in 0..(MaxStack - 1)}
AttrLists == {st \o tail : st \in Stacks, tail \in {<<>>, <<InlineAttr>>}}

NoGenerics == [params |-> <<>>, where_clause |-> <<>>]
GenericT == [params |-> <<Id("T")>>, where_clause |-> <<>>]
GenericTWhere ==
  [params |-> <<Id("T")>>,
   where_clause |-> <<[ty |-> Id("T"), bound |-> Ident(<<"C", "o", "p", "y">>)]>>]

\* the i-th field: odd ones a plain name and i32, even ones a raw name and T
FieldName(i) ==
  IF i % 2 = 1 THEN Ident(<<"x">> \o Decimal(i)) ELSE RawIdent(<<"k">> \o Decimal(i))
FieldType(i) == IF i % 2 = 1 THEN TyI32 ELSE TyT

NamedFields(n) ==
  [kind |-> "Named",
   list |-> [i \in 1..n |-> [ident |-> <<FieldName(i)>>, ty |-> FieldType(i)]]]
UnnamedFields(n) ==
  [kind |-> "Unnamed", list |-> [i \in 1..n |-> [ident |-> <<>>, ty |-> FieldType(i)]]]
UnitFields == [kind |-> "Unit", list |-> <<>>]

FieldShapes ==
  {NamedFields(n) : n \in 0..MaxFields} \cup {UnnamedFields(n) : n \in 0..MaxFields}
    \cup {UnitFields}

SeqsUpTo(S, n) == UNION {[1..k -> S] : k \in 0..n}

Blocks ==
  { <<>>,
    <<I(<<"x">>), P(";")>>,
    <<P("unsafe"), P("{"), I(<<"x">>), P("}")>>,
    <<I(<<"g">>), P("("), P(")"), P(";"), I(<<"x">>)>> }

Params(n) == [i \in 1..n |-> [pat |-> FieldName(i), ty |-> FieldType(i)]]

Sigs(name) ==
  {[unsafety |-> u, ident |-> name, inputs |-> Params(n),
    output |-> IF u THEN <<P("Self")>> ELSE <<>>] :
     u \in BOOLEAN, n \in 0..MaxFields}

Fns ==
  {[shape |-> "Fn", attrs |-> a, vis |-> v, sig |-> sg, block |-> b] :
     a \in AttrLists, v \in BOOLEAN, sg \in Sigs(Id("f")), b \in Blocks}

Structs ==
  {[shape |-> "Struct", attrs |-> a, vis |-> v, ident |-> Id("S"), generics |-> g,
    fields |-> f] :
     a \in AttrLists, v \in BOOLEAN,
     g \in {NoGenerics, GenericT, GenericTWhere}, f \in FieldShapes}

\* A and a differ by case alone; r#If is a raw identifier
Variants ==
  { [ident |-> Id("A"), fields |-> UnitFields],
    [ident |-> Id("a"), fields |-> UnitFields],
    [ident |-> Id("a"), fields |-> NamedFields(MaxFields)],
    [ident |-> Id("B"), fields |-> UnnamedFields(MaxFields)],
    [ident |-> RawIdent(<<"I", "f">>), fields |-> UnitFields] }

Enums ==
  {[shape |-> "Enum", attrs |-> a, vis |-> TRUE, ident |-> Id("E"), generics |-> g,
    variants |-> vs] :
     a \in Stacks, g \in {NoGenerics, GenericTWhere},
     vs \in SeqsUpTo(Variants, MaxVariants)}

TraitItems ==
  { [kind |-> "Fn", attrs |-> <<>>,
     sig |-> [unsafety |-> FALSE, ident |-> Id("m"), inputs |-> <<>>, output |-> <<>>],
     default |-> <<>>],
    [kind |-> "Fn", attrs |-> <<InlineAttr>>,
     sig |-> [unsafety |-> FALSE, ident |-> Id("d"), inputs |-> Params(1),
              output |-> <<TyI32>>],
     default |-> << <<I(<<"x", "1">>)>> >>],
    [kind |-> "Type", ident |-> Id("O")] }

Traits ==
  {[shape |-> "Trait", attrs |-> a, vis |-> TRUE, unsafety |-> u, ident |-> Id("C"),
    items |-> ms] :
     a \in Stacks, u \in BOOLEAN, ms \in SeqsUpTo(TraitItems, MaxMembers)}

ImplItems ==
  { [kind |-> "Fn", attrs |-> <<>>, vis |-> FALSE,
     sig |-> [unsafety |-> FALSE, ident |-> Id("m"), inputs |-> <<>>, output |-> <<>>],
     block |-> <<>>],
    [kind |-> "Fn", attrs |-> <<InlineAttr>>, vis |-> TRUE,
     sig |-> [unsafety |-> FALSE, ident |-> Id("d"), inputs |-> Params(1),
              output |-> <<TyI32>>],
     block |-> <<I(<<"x", "1">>)>>],
    [kind |-> "Type", ident |-> Id("O"), ty |-> TyI32] }

Impls ==
  {[shape |-> "Impl", attrs |-> a, unsafety |-> u, generics |-> g.g, trait_ |-> t,
    self_ty |-> [ident |-> Id("S"), args |-> g.args], items |-> ms] :
     a \in Stacks, u \in BOOLEAN,
     g \in {[g |-> NoGenerics, args |-> <<>>],
            [g |-> GenericTWhere, args |-> <<Id("T")>>]},
     t \in {<<>>, <<Id("C")>>},
     ms \in SeqsUpTo(ImplItems, MaxMembers)}

Others ==
  {[shape |-> "Type", attrs |-> a, vis |-> v, ident |-> Id("A"), ty |-> TyI32] :
     a \in AttrLists, v \in BOOLEAN}
    \cup {[shape |-> "Use", attrs |-> a, vis |-> v, ident |-> Id("m")] :
            a \in AttrLists, v \in BOOLEAN}

Declarations == Fns \cup Structs \cup Enums \cup Traits \cup Impls \cup Others

\* streams that are no declaration: cut short, followed by more, or no item
Samples ==
  { ItemTokens(CHOOSE f \in Fns : f.attrs = <<InlineAttr>> /\ f.vis
                                    /\ Len(f.sig.inputs) = 1 /\ f.block # <<>>),
    ItemTokens(CHOOSE st \in Structs : st.fields = NamedFields(1)
                                         /\ st.generics = GenericTWhere),
    ItemTokens(CHOOSE e \in Enums : Len(e.variants) = 1),
    ItemTokens(CHOOSE t \in Traits : Len(t.items) = 1),
    ItemTokens(CHOOSE m \in Impls : Len(m.items) = 1 /\ m.trait_ # <<>>),
    ItemTokens(CHOOSE o \in Others : o.shape = "Type") }

Malformed ==
  {SubSeq(ts, 1, n) : ts \in Samples, n \in 0..3}
    \cup {SubSeq(ts, 1, Len(ts) - 1) : ts \in Samples}
    \cup {ts \o ts : ts \in Samples}
    \cup {<<I(<<"x">>)>>, <<P("let"), I(<<"x">>), P(";")>>, <<P("}")>>}

Inputs == {ItemTokens(d) : d \in Declarations} \cup Malformed

ArgStreams == {<<>>, <<I(<<"x">>)>>}

(***************************************************************************)
(* The state machine.  The compiler strips the invoking #[noble], hands    *)
(* the declaration to the macro (Noble), reads the expansion back in place *)
(* of the declaration and expands the next #[noble] it finds on an item of *)
(* it (HostExpand), until none is left (HostAccept) or the expansion does  *)
(* not parse (HostReject).                                                 *)
(*   pc       invoke, expanded, error, panicked, rejected, compiled        *)
(*   source   the declaration as first handed to the macro                 *)
(*   args     the tokens of the attribute's arguments                      *)
(*   input    the declaration handed to the pending invocation             *)
(*   output   the token stream the last invocation returned                *)
(*   ran      the transformer the last invocation ran                      *)
(*   pre/post the items around the declaration being expanded              *)
(*   applied  the number of invocations so far                             *)
(***************************************************************************)
Init ==
  /\ source \in Inputs
  /\ input = source
  /\ args \in ArgStreams
  /\ pc = "invoke"
  /\ output = <<>>
  /\ ran = "none"
  /\ pre = <<>>
  /\ post = <<>>
  /\ applied = 0

Returned(r) ==
  /\ pc' = CASE r.st = "ok" -> "expanded"
              [] r.st = "error" -> "error"
              [] r.st = "panic" -> "panicked"
  /\ output' = r.ts
  /\ ran' = r.ran

Noble ==
  /\ pc = "invoke"
  /\ Returned(noble(args, input))
  /\ applied' = applied + 1
  /\ UNCHANGED <<source, args, input, pre, post>>

\* the crate text in place of the annotated declaration
Expansion == pre \o output \o post

IsNoble(attr) == attr = NobleAttr
HasNoble(item) == \E i \in DOMAIN item.attrs : IsNoble(item.attrs[i])

\* the item without its first #[noble]
StripNoble(item) ==
  LET j == CHOOSE j \in DOMAIN item.attrs :
             /\ IsNoble(item.attrs[j])
             /\ \A h \in 1..(j - 1) : ~IsNoble(item.attrs[h])
  IN [item EXCEPT !.attrs = SubSeq(item.attrs, 1, j - 1)
                              \o SubSeq(item.attrs, j + 1, Len(item.attrs))]

\* the first item of the file that carries #[noble]
FirstNoble(items) ==
  CHOOSE i \in DOMAIN items :
    /\ HasNoble(items[i])
    /\ \A h \in 1..(i - 1) : ~HasNoble(items[h])

ExpandAt(items, i) ==
  /\ input' = ItemTokens(StripNoble(items[i]))
  /\ pre' = Flatten([h \in 1..(i - 1) |-> ItemTokens(items[h])])
  /\ post' = Flatten([h \in 1..(Len(items) - i) |-> ItemTokens(items[i + h])])

Pending(file) == file.ok /\ \E i \in DOMAIN file.node : HasNoble(file.node[i])
Settled(file) == file.ok /\ \A i \in DOMAIN file.node : ~HasNoble(file.node[i])
ExpandIn(file) == Pending(file) /\ ExpandAt(file.node, FirstNoble(file.node))

HostExpand ==
  /\ pc = "expanded"
  /\ ExpandIn(ParseFile(Expansion))
  /\ pc' = "invoke"
  /\ UNCHANGED <<source, args, output, ran, applied>>

HostAccept ==
  /\ pc = "expanded"
  /\ Settled(ParseFile(Expansion))
  /\ pc' = "compiled"
  /\ UNCHANGED <<source, args, input, output, ran, pre, post, applied>>

HostReject ==
  /\ pc = "expanded"
  /\ ~ParseFile(Expansion).ok
  /\ pc' = "rejected"
  /\ UNCHANGED <<source, args, input, output, ran, pre, post, applied>>

Next == Noble \/ HostExpand \/ HostAccept \/ HostReject

Spec == Init /\ [][Next]_vars

(***************************************************************************)
(* Properties.  After Noble, in the states pc = "expanded", `input` is     *)
(* what the invocation was given and `output` what it returned.            *)
(***************************************************************************)
Returning == pc \in {"expanded", "error", "panicked"}
Final == pc \in {"compiled", "rejected", "error", "panicked"}

\* { unsafe { body } }
Wrapped(body) == <<P("unsafe"), P("{")>> \o body \o <<P("}")>>

\* the stream from its last `impl` on: the block the record transform appends
LastImpl(ts) ==
  CHOOSE i \in DOMAIN ts : ts[i] = P("impl") /\ \A j \in (i + 1)..Len(ts) : ts[j] # P("impl")
ConstructorPart(ts) ==
  IF \E i \in DOMAIN ts : ts[i] = P("impl") THEN Drop(ts, LastImpl(ts) - 1) ELSE <<>>

IsShape(in, shape) == in.ok /\ in.node.shape = shape

\* ---- C1
RoutineWrapped(in, out) ==
  /\ out.ok
  /\ Len(out.node) = 1
  /\ out.node[1].shape = "Fn"
  /\ out.node[1].attrs = in.node.attrs
  /\ out.node[1].vis = in.node.vis
  /\ out.node[1].sig = in.node.sig
  /\ out.node[1].block = Wrapped(in.node.block)

C1_Holds(in, out) == IsShape(in, "Fn") => ran = "wrap_function" /\ RoutineWrapped(in, out)

\* C1: the transform of a routine returns exactly one declaration, the routine
\* with the same attributes, visibility and signature, whose body is one block
\* holding only an unsafe block around the original body (empty bodies too)
C1_RoutineWrapped == pc = "expanded" => C1_Holds(ParseItem(input), ParseFile(output))

C1_Witness ==
  /\ pc = "expanded"
  /\ ran = "wrap_function"
  /\ output[Len(output) - 4] = P("{")
  /\ output[Len(output) - 3] = P("unsafe")
  /\ output[Len(output) - 2] = P("{")
  /\ output[Len(output) - 1] = P("}")

\* ---- C2
C2_Holds(in, out) ==
  IsShape(in, "Struct") =>
    /\ out.ok
    /\ Len(out.node) = 2
    /\ out.node[1] = in.node
    /\ out.node[2].shape = "Impl"

\* C2: the transform of a data record returns exactly two declarations, the
\* record itself unchanged and then the constructor block
C2_RecordUnchanged == pc = "expanded" => C2_Holds(ParseItem(input), ParseFile(output))

\* ---- C3
ExpectedParams(fields) ==
  [i \in DOMAIN fields.list |->
     [pat |-> IF fields.kind = "Named" THEN fields.list[i].ident[1]
              ELSE Ident(<<"f", "i", "e", "l", "d", "_">> \o Decimal(i - 1)),
      ty |-> fields.list[i].ty]]

ParamTokens(params) == Separated([i \in DOMAIN params |-> <<IdentTok(params[i].pat)>>])

\* the record built from the parameters: Self { a, b }, Self(field_0, field_1), Self
ExpectedBuild(path, fields) ==
  CASE fields.kind = "Named" ->
         path \o <<P("{")>> \o ParamTokens(ExpectedParams(fields)) \o <<P("}")>>
    [] fields.kind = "Unnamed" ->
         path \o <<P("(")>> \o ParamTokens(ExpectedParams(fields)) \o <<P(")")>>
    [] fields.kind = "Unit" -> path

IsConstructor(m, name, fields, body) ==
  /\ m.kind = "Fn"
  /\ m.sig.ident = name
  /\ m.sig.unsafety
  /\ m.sig.inputs = ExpectedParams(fields)
  /\ m.sig.output = <<P("Self")>>
  /\ m.block = body

C3_Holds(in, ctor) ==
  IsShape(in, "Struct") =>
    /\ ctor.ok
    /\ ctor.node.shape = "Impl"
    /\ ctor.node.trait_ = <<>>
    /\ ctor.node.self_ty.ident = in.node.ident
    /\ Len(ctor.node.items) = 1
    /\ IsConstructor(ctor.node.items[1], NewUnsafe, in.node.fields,
                     Wrapped(ExpectedBuild(<<P("Self")>>, in.node.fields)))

\* C3: new_unsafe has one parameter per field, in field order and of the
\* field's type, named as the field or field_0 .. field_{N-1}; its body builds
\* the record from them inside an unsafe block, also for a record of no fields
C3_Constructor ==
  pc = "expanded" => C3_Holds(ParseItem(input), ParseItem(ConstructorPart(output)))

C3_Witness ==
  /\ pc = "expanded"
  /\ ran = "wrap_struct"
  /\ \E i \in DOMAIN output : output[i] = I(<<"f", "i", "e", "l", "d", "_", "1">>)

\* ---- C4
ExpectedMethodName(variant) ==
  Ident(<<"n", "e", "w", "_">> \o to_lowercase(variant.ident.chars)
          \o <<"_", "u", "n", "s", "a", "f", "e">>)

C4_Methods(variants, items) ==
  /\ Len(items) = Len(variants)
  /\ \A i \in DOMAIN variants :
       IsConstructor(items[i], ExpectedMethodName(variants[i]), variants[i].fields,
                     ExpectedBuild(<<P("Self"), P("::"), IdentTok(variants[i].ident)>>,
                                   variants[i].fields))

C4_Holds(in, out) ==
  IsShape(in, "Enum") =>
    /\ pc = "expanded"
    /\ out.ok
    /\ Len(out.node) = 2
    /\ out.node[2].shape = "Impl"
    /\ C4_Methods(in.node.variants, out.node[2].items)

\* C4: for a tagged union of k variants the transform synthesizes k
\* constructors in variant order, new_<lowercase(Vi)>_unsafe, with the
\* parameters of Vi's fields and a body that builds Vi with no unsafe block
C4_VariantConstructors ==
  Returning => C4_Holds(ParseItem(input), ParseFile(output))

\* ---- C5
C5_Member(before, after) ==
  IF before.kind = "Fn"
  THEN /\ after.kind = "Fn"
       /\ after.attrs = before.attrs
       /\ after.sig = [before.sig EXCEPT !.unsafety = TRUE]
       /\ after.default = IF before.default = <<>> THEN <<>>
                          ELSE <<Wrapped(before.default[1])>>
  ELSE after = before

C5_Holds(in, out) ==
  IsShape(in, "Trait") =>
    /\ ran = "wrap_trait"
    /\ out.ok
    /\ Len(out.node) = 1
    /\ out.node[1].shape = "Trait"
    /\ out.node[1].unsafety
    /\ out.node[1].ident = in.node.ident
    /\ Len(out.node[1].items) = Len(in.node.items)
    /\ \A i \in DOMAIN in.node.items :
         C5_Member(in.node.items[i], out.node[1].items[i])

\* C5: after the transform of a capability contract the contract is unsafe,
\* every method signature is unsafe, every default body is one block around an
\* unsafe block holding the original body, a method without a body still has
\* none, and the members keep their number and order
C5_ContractElevated == pc = "expanded" => C5_Holds(ParseItem(input), ParseFile(output))

C5_WitnessIn(in) ==
  /\ IsShape(in, "Trait")
  /\ ~in.node.unsafety
  /\ \E i \in DOMAIN in.node.items :
       in.node.items[i].kind = "Fn" /\ in.node.items[i].default = <<>>
  /\ \E i \in DOMAIN in.node.items :
       in.node.items[i].kind = "Fn" /\ in.node.items[i].default # <<>>
            /\ ~in.node.items[i].sig.unsafety

C5_Witness == pc = "expanded" /\ ran = "wrap_trait" /\ C5_WitnessIn(ParseItem(input))

\* ---- C6
C6_Member(before, after) ==
  IF before.kind = "Fn"
  THEN after = [before EXCEPT !.block = Wrapped(before.block)]
  ELSE after = before

C6_Holds(in, out) ==
  IsShape(in, "Impl") =>
    /\ ran = "wrap_impl"
    /\ out.ok
    /\ Len(out.node) = 1
    /\ out.node[1].shape = "Impl"
    /\ out.node[1].trait_ = in.node.trait_
    /\ out.node[1].unsafety = IF in.node.trait_ # <<>> THEN TRUE ELSE in.node.unsafety
    /\ Len(out.node[1].items) = Len(in.node.items)
    /\ \A i \in DOMAIN in.node.items :
         C6_Member(in.node.items[i], out.node[1].items[i])

\* C6: the transform of an implementation block wraps every method body in an
\* unsafe block and leaves the signatures alone; a block bound to a contract
\* becomes unsafe (with no methods too), a contract-free block keeps its own
\* unsafety
C6_ImplementationWrapped ==
  pc = "expanded" => C6_Holds(ParseItem(input), ParseFile(output))

C6_WitnessIn(in) ==
  IsShape(in, "Impl") /\ in.node.trait_ # <<>> /\ ~in.node.unsafety
    /\ in.node.items = <<>>

C6_Witness == pc = "expanded" /\ ran = "wrap_impl" /\ C6_WitnessIn(ParseItem(input))

\* ---- C7
Recognized == {"Fn", "Struct", "Enum", "Trait", "Impl"}

C7_Holds(in) ==
  (in.ok /\ in.node.shape \notin Recognized) =>
    /\ pc = "expanded"
    /\ ran = "none"
    /\ output = input

\* C7: a declaration of none of the five shapes is returned as it came: no
\* transformer runs, nothing is added, no error is raised, whatever the
\* arguments of the attribute
C7_Passthrough == Returning => C7_Holds(ParseItem(input))

C7_WitnessIn(in) == in.ok /\ in.node.shape = "Type"

C7_Witness ==
  /\ pc = "expanded"
  /\ args # <<>>
  /\ output # <<>>
  /\ C7_WitnessIn(ParseItem(input))

\* ---- C8
MethodNames(impl) == [i \in DOMAIN impl.items |-> impl.items[i].sig.ident]

C8_DistinctVariants(variants, names) ==
  \A i, j \in DOMAIN variants :
    variants[i].ident # variants[j].ident => names[i] # names[j]

C8_OriginalHolds(in, out) ==
  (IsShape(in, "Enum") /\ out.ok) =>
    C8_DistinctVariants(in.node.variants, MethodNames(out.node[Len(out.node)]))

\* C8 as stated: the constructors synthesized for two distinct variants have
\* distinct names, also when the variants differ only by letter case
C8_NamesUnique ==
  (pc = "expanded" /\ ran = "wrap_enum") =>
    C8_OriginalHolds(ParseItem(input), ParseFile(output))

C8_UpToCase(variants, names) ==
  /\ Len(names) = Len(variants)
  /\ \A i, j \in DOMAIN variants :
       (names[i] = names[j])
         <=> (to_lowercase(to_string(variants[i].ident))
                = to_lowercase(to_string(variants[j].ident)))

C8_AmendedHolds(in, out, ctor) ==
  /\ (IsShape(in, "Enum") /\ ran = "wrap_enum") =>
       out.ok /\ C8_UpToCase(in.node.variants, MethodNames(out.node[Len(out.node)]))
  /\ (IsShape(in, "Struct") /\ ran = "wrap_struct") =>
       ctor.ok /\ Len(ctor.node.items) = 1

\* C8 amended: two variants get the same constructor name exactly when their
\* names are equal after lowercasing, so names are distinct for variants that
\* differ by more than letter case and collide for those that differ by case
\* alone; a data record gets a single synthesized operation
C8_NamesUniqueUpToCase ==
  pc = "expanded" =>
    C8_AmendedHolds(ParseItem(input), ParseFile(output),
                    ParseItem(ConstructorPart(output)))

C8_WitnessIn(in) ==
  /\ IsShape(in, "Enum")
  /\ \E i, j \in DOMAIN in.node.variants :
       /\ in.node.variants[i].ident = Id("A")
       /\ in.node.variants[j].ident = Id("a")

C8_Witness == pc = "expanded" /\ ran = "wrap_enum" /\ C8_WitnessIn(ParseItem(input))

\* ---- C9
C9_Holds(in) ==
  /\ (pc = "error") <=> ~in.ok
  /\ pc = "error" => ran = "none" /\ output = CompileError
  /\ in.ok => pc = "expanded"

\* C9: an invocation ends in the parse error exactly when its input is no
\* declaration, and then no transformer runs and nothing transformed is
\* returned; every input that is a declaration ends with an output, no error
C9_ErrorOnlyWhenMalformed == Returning => C9_Holds(ParseItem(input))

\* ---- C10
RECURSIVE Nested(_, _)
Nested(n, body) == IF n = 0 THEN body ELSE Wrapped(Nested(n - 1, body))

C10_Routine(src, out) ==
  (IsShape(src, "Fn") /\ pc = "expanded") =>
    out.ok /\ out.node[1].block = Nested(applied, src.node.block)

CountNewUnsafe(items) ==
  Cardinality({<<i, j>> \in (DOMAIN items) \X (1..MaxMembers) :
                 /\ items[i].shape = "Impl"
                 /\ j \in DOMAIN items[i].items
                 /\ items[i].items[j].kind = "Fn"
                 /\ items[i].items[j].sig.ident = NewUnsafe})

C10_Record(src, file) ==
  (IsShape(src, "Struct") /\ HasNoble(src.node) /\ Final) =>
    /\ applied >= 2
    /\ file.ok
    /\ CountNewUnsafe(file.node) >= 2

\* C10: n applications to a routine leave its body inside n nested unsafe
\* blocks, and a second application to a transformed data record leaves two
\* definitions of new_unsafe in the crate
C10_Reapplication ==
  /\ C10_Routine(ParseItem(source), ParseFile(output))
  /\ C10_Record(ParseItem(source), ParseFile(Expansion))

====
